---------------------------- MODULE Spec2Model ----------------------------
(***************************************************************************)
(* lambda-code-watcher (src/lambda_function.py): backs up a Lambda         *)
(* function's deployment package to a versioned S3 key whenever its        *)
(* CodeSha256 differs from the one recorded in a per-function state        *)
(* record.                                                                 *)
(*                                                                         *)
(* The model has one action per call the handler makes to a collaborator   *)
(* (S3, the Lambda registry, the package URL); the pure code that follows  *)
(* a call up to the next call is part of the same action.  Every call may  *)
(* succeed or fail; the collaborators' state (bucket versioning, stored    *)
(* objects, the functions' code) is part of the state.                     *)
(*                                                                         *)
(* Python values: an optional value is a sequence of length at most one    *)
(* (<<>> is None, <<x>> is x); a dict is a function from the keys it       *)
(* holds; a function identifier is the sequence of its ':'-separated       *)
(* segments, so "arn:...:function:f" is <<"arn","function","f">> (the      *)
(* partition, region and account segments are left out) and "" is <<>>.    *)
(***************************************************************************)
EXTENDS Naturals, Sequences, FiniteSets, TLC

(***************************************************************************)
(* Bounds of the model.                                                    *)
(***************************************************************************)
\* invocations of lambda_handler started in one behaviour
MaxInvocations == 2
\* code changes made to the functions in one behaviour
MaxChanges == 2
\* collaborator calls that fail in one behaviour
MaxFaults == 1
\* concurrent execution environments
NProcs == 2

Procs == 1..NProcs

(***************************************************************************)
(* Python values.                                                          *)
(***************************************************************************)
None == <<>>
Some(x) == <<x>>

\* dict.get(k): None when the key is missing
Get(d, k) == IF k \in DOMAIN d THEN d[k] ELSE None

\* truth value of an optional string: None and "" are falsy
Truthy(o) == o # None /\ o[1] # ""

(***************************************************************************)
(* The functions of the registry, their identifiers and their code.        *)
(***************************************************************************)
Fns == {"f", "g"}
Hashes == {"h1", "h2"}

ShortName(f) == <<f>>
Arn(f) == <<"arn", "function", f>>

\* the identifiers the targets are drawn from: short names, a full ARN, a
\* name with a version qualifier and an ARN with a version qualifier
TargetIds ==
    {ShortName("f"), ShortName("g"), Arn("f"), <<"f", "1">>, Arn("g") \o <<"1">>}

\* the function an identifier names, as the registry resolves it
ResolveFunction(id) == IF id[1] = "arn" THEN id[3] ELSE id[1]

\* the qualifier of an identifier, <<>> if it has none
Qualifier(id) == IF id[1] = "arn" THEN SubSeq(id, 4, Len(id)) ELSE Tail(id)

\* the text before the first ':' taken for the text after the last
rsplit_first(target) == target[1]

\* target.rsplit(":", 1)[-1]: the text after the last ':'
rsplit_last(target) == target[Len(target)]

KeyNames == {rsplit_last(id) : id \in TargetIds}

\* the presigned location of a package, the bytes served there, and the
\* CodeSha256 of those bytes
LocationOf == [h \in Hashes |-> IF h = "h1" THEN "url1" ELSE "url2"]
BytesAt == [u \in {"url1", "url2"} |-> IF u = "url1" THEN "zip1" ELSE "zip2"]
Sha256Of == [b \in {"zip1", "zip2"} |-> IF b = "zip1" THEN "h1" ELSE "h2"]

(***************************************************************************)
(* Configuration read from the environment when the module is loaded.      *)
(***************************************************************************)
DEST_BUCKET == "bucket"
DEST_PREFIX == "lambda-code-backups"
STATE_PREFIX == <<DEST_PREFIX, ".state">>

\* a blank piece of a comma-separated list (empty or only whitespace)
Blank == <<>>

\* the values of TARGET_FUNCTION and TARGET_FUNCTIONS, each as the sequence
\* of its comma-separated pieces
EnvSettings ==
    { <<<<>>, <<>>>>,
      <<<<ShortName("f")>>, <<>>>>,
      <<<<ShortName("f")>>, <<ShortName("g"), Blank, ShortName("f")>>>> }

\* [s.strip() for s in (_env_tf + "," + _env_tfs).split(",") if s.strip()]
ParseTargets(tf, tfs) == SelectSeq(tf \o tfs, LAMBDA s : s # Blank)

_state_key(function_name) == <<STATE_PREFIX, function_name, ".json">>

zip_key(function_name) == <<DEST_PREFIX, function_name, ".zip">>

(***************************************************************************)
(* JSON values of the event: a tagged pair.                                *)
(***************************************************************************)
JNull == <<"null">>
JStr(s) == <<"str", s>>
JId(id) == <<"id", id>>
JDict(d) == <<"dict", d>>
EmptyDict == [k \in {} |-> JNull]

IsDict(j) == j[1] = "dict"

\* d.get(k, default) on a JSON dict
JGet(j, k, default) == IF k \in DOMAIN j[2] THEN j[2][k] ELSE default

CloudTrailCall == "AWS API Call via CloudTrail"
LambdaSource == "lambda.amazonaws.com"


\* the request parameters, details and events the handler is invoked with
FunctionNames == {JId(id) : id \in TargetIds \cup {<<>>}}

RequestParams ==
    {JNull, JDict(EmptyDict)} \cup {JDict([functionName |-> n]) : n \in FunctionNames}

Sources == {JStr(LambdaSource), JStr("s3.amazonaws.com")}

Details ==
    {JNull, JDict(EmptyDict)}
    \cup {JDict([eventSource |-> s]) : s \in Sources}
    \cup {JDict([eventSource |-> s, requestParameters |-> rp]) :
             s \in Sources, rp \in RequestParams}

DetailTypes == {JStr(CloudTrailCall), JStr("Scheduled Event")}

AllEvents ==
    {JNull, JDict(EmptyDict)}
    \cup {JDict("detail-type" :> t) : t \in DetailTypes}
    \cup {JDict(("detail-type" :> t) @@ ("detail" :> d)) :
             t \in DetailTypes, d \in Details}

(***************************************************************************)
(* function_name_from_event.  The body of the try block ends in one of     *)
(* three ways: it returns a value, it raises (a .get on something that is  *)
(* no dict), or it falls out of the ifs.                                   *)
(***************************************************************************)
Returned(v) == <<"return", v>>
Raised == <<"raise">>
FellThrough == <<"fall">>

try_function_name(ev) ==
    IF ~IsDict(ev) THEN Raised
    ELSE IF JGet(ev, "detail-type", JNull) # JStr(CloudTrailCall) THEN FellThrough
    ELSE LET det == JGet(ev, "detail", JDict(EmptyDict))
         IN  IF ~IsDict(det) THEN Raised
             ELSE IF JGet(det, "eventSource", JNull) # JStr(LambdaSource)
                  THEN FellThrough
             ELSE LET rp == JGet(det, "requestParameters", JDict(EmptyDict))
                  IN  IF ~IsDict(rp) THEN Raised
                      ELSE Returned(JGet(rp, "functionName", JNull))

\* function_name_from_event without its try: an exception leaves it
function_name_from_event_unguarded(ev) ==
    LET r == try_function_name(ev)
    IN  IF r[1] = "fall" THEN Returned(JNull) ELSE r

\* except Exception: pass, then return None
function_name_from_event(ev) ==
    LET r == try_function_name(ev)
    IN  IF r[1] = "return" THEN r ELSE Returned(JNull)

\* `if event_fn:` None and "" are falsy
EventFnTruthy(v) == v[1] = "id" /\ v[2] # <<>>

(***************************************************************************)
(* Target resolution of lambda_handler: the event's function, else the     *)
(* configured list, else RuntimeError.                                     *)
(***************************************************************************)
NoTargetsMessage == "No target functions provided"

\* the resolution with the event's function put before the configured list
resolve_targets_merge(ev, env_targets) ==
    LET r == function_name_from_event(ev)
    IN  IF r[1] = "raise" THEN [error |-> Some("event"), targets |-> <<>>]
        ELSE IF EventFnTruthy(r[2])
             THEN [error |-> None, targets |-> <<r[2][2]>> \o env_targets]
        ELSE IF env_targets # <<>> THEN [error |-> None, targets |-> env_targets]
        ELSE [error |-> Some(NoTargetsMessage), targets |-> <<>>]

\* the resolution without the final raise: an empty list of targets is used
resolve_targets_empty(ev, env_targets) ==
    LET r == function_name_from_event(ev)
    IN  IF r[1] = "raise" THEN [error |-> Some("event"), targets |-> <<>>]
        ELSE IF EventFnTruthy(r[2]) THEN [error |-> None, targets |-> <<r[2][2]>>]
        ELSE [error |-> None, targets |-> env_targets]

resolve_targets(ev, env_targets) ==
    LET r == function_name_from_event(ev)
    IN  IF r[1] = "raise" THEN [error |-> Some("event"), targets |-> <<>>]
        ELSE IF EventFnTruthy(r[2]) THEN [error |-> None, targets |-> <<r[2][2]>>]
        ELSE IF env_targets # <<>> THEN [error |-> None, targets |-> env_targets]
        ELSE [error |-> Some(NoTargetsMessage), targets |-> <<>>]

(***************************************************************************)
(* The state: the configuration, the collaborators, and each execution     *)
(* environment's position in lambda_handler with its local variables.      *)
(***************************************************************************)
VARIABLES
    TARGETS_FROM_ENV,   \* the configured target list
    cmp,                \* compare_sha on its own: its arguments and its result
    rt,                 \* save_state and load_last_state on their own: per key name
                        \* the record last saved, and the last read with its answer
    versioning,         \* the bucket's versioning status
    registry,           \* per function: its current CodeSha256 and revision
    state_store,        \* per key name: the body stored at _state_key, or None
    artifacts,          \* per key name: the versions stored at zip_key, oldest first
    pc,                 \* per environment: where it is in lambda_handler
    event,              \* per environment: the event it was invoked with
    targets,            \* per environment: the resolved targets
    idx,                \* per environment: index of the target being processed
    results,            \* per environment: the results list
    info,               \* per environment: process_function's info, or None
    last_state,         \* per environment: process_function's last_state
    blob,               \* per environment: the downloaded bytes, or None
    upload_info,        \* per environment: what upload_zip returned, or None
    ops,                \* per environment: the collaborator calls of this invocation
    raised,             \* per environment: the exception that ended the invocation
    started,            \* invocations started so far
    changes,            \* code changes so far
    faults,             \* failed collaborator calls so far
    calls,              \* history: per key name, its last two process_function calls
    history,            \* history: per function, the hashes its code has had
    pending,            \* history: per function, its latest code is not backed up yet
    missed,             \* history: per function, a change came before the last was backed up
    raced               \* history: per key name, two invocations processed it at once

config == <<TARGETS_FROM_ENV, cmp, rt>>
world == <<versioning, registry, state_store, artifacts>>
locals ==
    <<event, targets, idx, results, info, last_state, blob, upload_info, ops, raised>>
counters == <<started, changes, faults>>
ghost == <<calls, history, pending, missed, raced>>
vars == <<config, world, pc, locals, counters, ghost>>

\* the events of the invocations: a manual invocation, a scheduled one, a
\* notification without detail, and the change notification for every
\* function name (the empty one included)
Notification(n) ==
    JDict(("detail-type" :> JStr(CloudTrailCall)) @@
          ("detail" :> JDict([eventSource |-> JStr(LambdaSource),
                              requestParameters |-> JDict([functionName |-> n])])))

Events ==
    {JDict(EmptyDict),
     JDict("detail-type" :> JStr("Scheduled Event")),
     JDict(("detail-type" :> JStr(CloudTrailCall)) @@ ("detail" :> JNull))}
    \cup {Notification(n) : n \in FunctionNames}

Init ==
    /\ \E e \in EnvSettings : TARGETS_FROM_ENV = ParseTargets(e[1], e[2])
    /\ cmp = [state |-> None, sha |-> Some("h1"), result |-> None]
    /\ rt = [saved |-> [k \in KeyNames |-> None], read |-> None]
    /\ versioning \in {"Suspended", "Enabled"}
    /\ registry = [f \in Fns |-> [sha |-> "h1", rev |-> 1]]
    /\ state_store = [k \in KeyNames |-> None]
    /\ artifacts = [k \in KeyNames |-> <<>>]
    /\ pc = [p \in Procs |-> "idle"]
    /\ event = [p \in Procs |-> JNull]
    /\ targets = [p \in Procs |-> <<>>]
    /\ idx = [p \in Procs |-> 0]
    /\ results = [p \in Procs |-> <<>>]
    /\ info = [p \in Procs |-> None]
    /\ last_state = [p \in Procs |-> None]
    /\ blob = [p \in Procs |-> None]
    /\ upload_info = [p \in Procs |-> None]
    /\ ops = [p \in Procs |-> <<>>]
    /\ raised = [p \in Procs |-> None]
    /\ started = 0
    /\ changes = 0
    /\ faults = 0
    /\ calls = [k \in KeyNames |-> <<>>]
    /\ history = [f \in Fns |-> <<"h1">>]
    /\ pending = [f \in Fns |-> TRUE]
    /\ missed = [f \in Fns |-> FALSE]
    /\ raced = [k \in KeyNames |-> FALSE]

\* one collaborator call of the invocation: its name, the index of the target
\* it was made for (0 before the loop) and "ok" or the error code it raised;
\* process_function's own `raise RuntimeError` is logged as a "raise"
Call(op, i, res) == [op |-> op, i |-> i, res |-> res]

Log(p, cs) == ops' = [ops EXCEPT ![p] = @ \o cs]

MayFail == faults < MaxFaults

Fault == faults' = faults + 1

NoFault == faults' = faults

(***************************************************************************)
(* lambda_handler, up to the loop.                                         *)
(***************************************************************************)
\* the first free execution environment
FirstFree(p) == pc[p] = "idle" /\ \A q \in Procs : q < p => pc[q] # "idle"

\* lambda_handler(event, context) is called with an event of evs; one
\* invocation at a time
InvokeWith(p, evs) ==
    /\ FirstFree(p)
    /\ \A q \in Procs : pc[q] = "idle"
    /\ started < MaxInvocations
    /\ \E e \in evs : event' = [event EXCEPT ![p] = e]
    /\ pc' = [pc EXCEPT ![p] = "versioning"]
    /\ started' = started + 1
    /\ UNCHANGED <<config, world, targets, idx, results, info, last_state, blob,
                   upload_info, ops, raised, changes, faults, ghost>>

Invoke(p) == InvokeWith(p, Events)

\* an invocation with any event, whatever its shape
InvokeAny(p) == InvokeWith(p, AllEvents)

\* an exception leaves lambda_handler
Raise(p, e) ==
    /\ pc' = [pc EXCEPT ![p] = "failed"]
    /\ raised' = [raised EXCEPT ![p] = Some(e)]

VersioningError == "Failed to check/enable versioning"

\* ensure_bucket_versioning that enables versioning whatever the status is
ensure_bucket_versioning_unconditional(p) ==
    /\ pc[p] = "versioning"
    /\ \/ /\ MayFail /\ Fault
          /\ Log(p, <<Call("get_bucket_versioning", 0, "ClientError")>>)
          /\ Raise(p, VersioningError)
          /\ UNCHANGED versioning
       \/ /\ NoFault
          /\ Log(p, <<Call("get_bucket_versioning", 0, "ok"),
                      Call("put_bucket_versioning", 0, "ok")>>)
          /\ versioning' = "Enabled"
          /\ pc' = [pc EXCEPT ![p] = "resolve"]
          /\ UNCHANGED raised
       \/ /\ MayFail /\ Fault
          /\ Log(p, <<Call("get_bucket_versioning", 0, "ok"),
                      Call("put_bucket_versioning", 0, "ClientError")>>)
          /\ Raise(p, VersioningError)
          /\ UNCHANGED versioning
    /\ UNCHANGED <<config, registry, state_store, artifacts, event, targets, idx,
                   results, info, last_state, blob, upload_info, started,
                   changes, ghost>>

\* ensure_bucket_versioning with the error logged and not raised again
ensure_bucket_versioning_swallow(p) ==
    /\ pc[p] = "versioning"
    /\ \/ /\ MayFail /\ Fault
          /\ Log(p, <<Call("get_bucket_versioning", 0, "ClientError")>>)
          /\ UNCHANGED versioning
       \/ /\ versioning = "Enabled" /\ NoFault
          /\ Log(p, <<Call("get_bucket_versioning", 0, "ok")>>)
          /\ UNCHANGED versioning
       \/ /\ versioning # "Enabled" /\ NoFault
          /\ Log(p, <<Call("get_bucket_versioning", 0, "ok"),
                      Call("put_bucket_versioning", 0, "ok")>>)
          /\ versioning' = "Enabled"
    /\ pc' = [pc EXCEPT ![p] = "resolve"]
    /\ UNCHANGED <<config, registry, state_store, artifacts, event, targets, idx,
                   results, info, last_state, blob, upload_info, raised, started,
                   changes, ghost>>

ensure_bucket_versioning(p) ==
    /\ pc[p] = "versioning"
    /\ \/ /\ MayFail /\ Fault
          /\ Log(p, <<Call("get_bucket_versioning", 0, "ClientError")>>)
          /\ Raise(p, VersioningError)
          /\ UNCHANGED versioning
       \/ /\ versioning = "Enabled" /\ NoFault
          /\ Log(p, <<Call("get_bucket_versioning", 0, "ok")>>)
          /\ pc' = [pc EXCEPT ![p] = "resolve"]
          /\ UNCHANGED <<versioning, raised>>
       \/ /\ versioning # "Enabled" /\ NoFault
          /\ Log(p, <<Call("get_bucket_versioning", 0, "ok"),
                      Call("put_bucket_versioning", 0, "ok")>>)
          /\ versioning' = "Enabled"
          /\ pc' = [pc EXCEPT ![p] = "resolve"]
          /\ UNCHANGED raised
       \/ /\ versioning # "Enabled" /\ MayFail /\ Fault
          /\ Log(p, <<Call("get_bucket_versioning", 0, "ok"),
                      Call("put_bucket_versioning", 0, "ClientError")>>)
          /\ Raise(p, VersioningError)
          /\ UNCHANGED versioning
    /\ UNCHANGED <<config, registry, state_store, artifacts, event, targets, idx,
                   results, info, last_state, blob, upload_info, started,
                   changes, ghost>>

ResolveTargets(p) ==
    /\ pc[p] = "resolve"
    /\ LET r == resolve_targets(event[p], TARGETS_FROM_ENV)
       IN  IF r.error # None
           THEN /\ Raise(p, r.error[1])
                /\ UNCHANGED <<targets, idx>>
           ELSE /\ targets' = [targets EXCEPT ![p] = r.targets]
                /\ idx' = [idx EXCEPT ![p] = 1]
                /\ pc' = [pc EXCEPT ![p] = "fetch"]
                /\ UNCHANGED raised
    /\ UNCHANGED <<config, world, event, results, info, last_state, blob,
                   upload_info, ops, counters, ghost>>

(***************************************************************************)
(* The collaborators' answers.                                             *)
(***************************************************************************)
\* lambda_client.get_function(FunctionName=id): the response for the function
\* the identifier names, the qualifier standing for its current code; a
\* response may lack CodeSha256 or Location, or carry an empty CodeSha256
ResponseShapes == {"full", "no_sha", "empty_sha", "no_location"}

get_function(id, reg, shape) ==
    LET f == ResolveFunction(id)
    IN  [Configuration |->
             [k \in {"FunctionArn", "Version", "LastModified"}
                    \cup (IF shape = "no_sha" THEN {} ELSE {"CodeSha256"}) |->
                 CASE k = "FunctionArn" -> Some(Arn(f) \o Qualifier(id))
                   [] k = "Version" ->
                         Some(IF Qualifier(id) = <<>> THEN "$LATEST" ELSE Qualifier(id)[1])
                   [] k = "LastModified" -> Some(reg[f].rev)
                   [] k = "CodeSha256" ->
                         IF shape = "empty_sha" THEN Some("") ELSE Some(reg[f].sha)],
         Code |->
             [k \in (IF shape = "no_location" THEN {} ELSE {"Location"}) |->
                 Some(LocationOf[reg[f].sha])]]

\* s3.put_object on a key holding `versions`: with versioning enabled a new
\* version is added, otherwise the null version is replaced
s3_put_object(versions, status, body, metadata) ==
    IF status = "Enabled"
    THEN Append(versions, [version_id |-> Some(Len(versions) + 1),
                           body |-> body, metadata |-> metadata])
    ELSE Append(SelectSeq(versions, LAMBDA v : v.version_id # None),
                [version_id |-> None, body |-> body, metadata |-> metadata])

\* s3.head_object: the newest version of the key
s3_head_object(versions) == [VersionId |-> versions[Len(versions)].version_id]

(***************************************************************************)
(* The pure code of the pipeline.                                          *)
(***************************************************************************)
fetch_lambda_package_info(resp) ==
    [function_arn |-> Get(resp.Configuration, "FunctionArn"),
     version |-> Get(resp.Configuration, "Version"),
     last_modified |-> Get(resp.Configuration, "LastModified"),
     code_sha |-> Get(resp.Configuration, "CodeSha256"),
     code_url |-> Get(resp.Code, "Location")]

\* the check of the hash alone
MissingCodeInfo_sha_only(i) == ~Truthy(i.code_sha)

\* `if not code_sha or not info["code_url"]`
MissingCodeInfo(i) == ~Truthy(i.code_sha) \/ ~Truthy(i.code_url)

StateKeys == <<"code_sha", "last_modified", "s3_bucket", "s3_key", "s3_version_id">>

\* json.dumps of a dict: its items in insertion order
json_dumps(d) ==
    LET keys == SelectSeq(StateKeys, LAMBDA k : k \in DOMAIN d)
    IN  [i \in 1..Len(keys) |-> <<keys[i], d[keys[i]]>>]

\* json.loads of an object: a dict of its items, the last of equal keys kept
json_loads(text) ==
    [k \in {text[i][1] : i \in DOMAIN text} |->
        text[CHOOSE i \in DOMAIN text :
                 text[i][1] = k /\ \A j \in DOMAIN text : j > i => text[j][1] # k][2]]

\* save_state that updates the stored record with the new items and keeps the
\* items the new state does not have
save_state_merge(prior, state) ==
    IF prior = None THEN Some(json_dumps(state))
    ELSE LET old == json_loads(prior[1])
         IN  Some(json_dumps([k \in DOMAIN state \cup DOMAIN old |->
                                 IF k \in DOMAIN state THEN state[k] ELSE old[k]]))

\* save_state: s3.put_object at _state_key with the state's JSON text as the
\* body; the object stored before (prior) is replaced
save_state(prior, state) == Some(json_dumps(state))

\* compare_sha without the comparison of the hashes: a stored state never
\* counts as current
compare_sha_always(state, current_sha) ==
    \/ state = None
    \/ DOMAIN state[1] = {}
    \/ Get(state[1], "code_sha") # current_sha
    \/ TRUE

\* compare_sha with == for !=
compare_sha_equal(state, current_sha) ==
    \/ state = None
    \/ DOMAIN state[1] = {}
    \/ Get(state[1], "code_sha") = current_sha

\* `not last_state or last_state.get("code_sha") != current_sha`
compare_sha(state, current_sha) ==
    \/ state = None
    \/ DOMAIN state[1] = {}
    \/ Get(state[1], "code_sha") # current_sha

\* metadata.get(k, "")
MetadataGet(metadata, k) == IF k \in DOMAIN metadata THEN metadata[k] ELSE Some("")

\* upload_zip with the version taken for the content hash in the metadata
upload_metadata_swapped(metadata) ==
    [function_arn |-> MetadataGet(metadata, "function_arn"),
     lambda_version |-> MetadataGet(metadata, "version"),
     last_modified |-> MetadataGet(metadata, "last_modified"),
     code_sha |-> MetadataGet(metadata, "version")]

upload_metadata(metadata) ==
    [function_arn |-> MetadataGet(metadata, "function_arn"),
     lambda_version |-> MetadataGet(metadata, "version"),
     last_modified |-> MetadataGet(metadata, "last_modified"),
     code_sha |-> MetadataGet(metadata, "code_sha")]

\* the state saved with the version identifier read from a key that
\* upload_zip's result does not have
new_state_unversioned(i, up) ==
    [code_sha |-> i.code_sha,
     last_modified |-> i.last_modified,
     s3_bucket |-> Some(up.bucket),
     s3_key |-> Some(up.key),
     s3_version_id |-> None]

\* the state process_function saves
new_state(i, up) ==
    [code_sha |-> i.code_sha,
     last_modified |-> i.last_modified,
     s3_bucket |-> Some(up.bucket),
     s3_key |-> Some(up.key),
     s3_version_id |-> up.version_id]

(***************************************************************************)
(* The loop of lambda_handler: process_function(fn) for each target, its   *)
(* result or its exception appended to results.                            *)
(***************************************************************************)
Target(p) == targets[p][idx[p]]

KeyName(p) == rsplit_last(Target(p))

\* the last two of a sequence with x appended
LastTwo(sq, x) == IF sq = <<>> THEN <<x>> ELSE <<sq[Len(sq)], x>>

\* history: what is kept of a process_function call when it ends: its target,
\* the info it fetched (None if the lookup failed), how it ended and the
\* collaborator calls it made
Summary(p, i, outcome) ==
    [target |-> Target(p),
     info |-> i,
     outcome |-> outcome,
     ops |-> SelectSeq(ops'[p], LAMBDA c : c.i = idx[p])]

\* history: the call backed up the function's latest code if it ended
\* normally and the registry had reported the latest revision to it
BacksUpLatest(p, i, outcome) ==
    /\ outcome # "error"
    /\ i # None
    /\ i[1].last_modified = Some(registry[ResolveFunction(Target(p))].rev)

\* results.append(entry), then the next target or `return {"results": results}`;
\* i is the info the call had fetched, or None
Append_result(p, entry, i, outcome) ==
    /\ results' = [results EXCEPT ![p] = Append(@, entry)]
    /\ IF idx[p] < Len(targets[p])
       THEN /\ idx' = [idx EXCEPT ![p] = @ + 1]
            /\ pc' = [pc EXCEPT ![p] = "fetch"]
       ELSE /\ idx' = idx
            /\ pc' = [pc EXCEPT ![p] = "done"]
    /\ info' = [info EXCEPT ![p] = None]
    /\ last_state' = [last_state EXCEPT ![p] = None]
    /\ blob' = [blob EXCEPT ![p] = None]
    /\ upload_info' = [upload_info EXCEPT ![p] = None]
    /\ calls' = [calls EXCEPT ![KeyName(p)] = LastTwo(@, Summary(p, i, outcome))]
    /\ pending' = [pending EXCEPT ![ResolveFunction(Target(p))] =
                      @ /\ ~BacksUpLatest(p, i, outcome)]

\* process_function goes on to its next call
Continue == UNCHANGED <<idx, results, calls, pending>>

\* the error entry appended and the loop left: `break` after the append
Catch_break(p, e, i) ==
    /\ results' = [results EXCEPT ![p] = Append(@, [function |-> Target(p), error |-> e])]
    /\ idx' = idx
    /\ pc' = [pc EXCEPT ![p] = "done"]
    /\ info' = [info EXCEPT ![p] = None]
    /\ last_state' = [last_state EXCEPT ![p] = None]
    /\ blob' = [blob EXCEPT ![p] = None]
    /\ upload_info' = [upload_info EXCEPT ![p] = None]
    /\ calls' = [calls EXCEPT ![KeyName(p)] = LastTwo(@, Summary(p, i, "error"))]
    /\ pending' = pending

\* except Exception as e: results.append({"function": fn, "error": str(e)})
Catch(p, e, i) == Append_result(p, [function |-> Target(p), error |-> e], i, "error")

\* the steps of process_function that read and write the stored records
InWindow(q) == pc[q] \in {"load", "download", "put", "head", "save"}

\* history: another invocation is within those steps for the key name that
\* this one is about to process
Overlaps(p) ==
    \E q \in Procs \ {p} : InWindow(q) /\ KeyName(q) = KeyName(p)

FetchInfo(p) ==
    /\ pc[p] = "fetch"
    /\ \/ /\ MayFail /\ Fault
          /\ Log(p, <<Call("get_function", idx[p], "ClientError")>>)
          /\ Catch(p, "get_function", None)
       \/ \E shape \in ResponseShapes :
            /\ IF shape = "full" THEN NoFault ELSE MayFail /\ Fault
            /\ LET i == fetch_lambda_package_info(
                            get_function(Target(p), registry, shape))
               IN  IF MissingCodeInfo(i)
                   THEN /\ Log(p, <<Call("get_function", idx[p], "ok"),
                                    Call("raise", idx[p], "RuntimeError")>>)
                        /\ Catch(p, "Missing code info", Some(i))
                   ELSE /\ Log(p, <<Call("get_function", idx[p], "ok")>>)
                        /\ info' = [info EXCEPT ![p] = Some(i)]
                        /\ pc' = [pc EXCEPT ![p] = "load"]
                        /\ Continue
                        /\ UNCHANGED <<last_state, blob, upload_info>>
    /\ raced' = IF pc'[p] = "load" /\ Overlaps(p)
                THEN [raced EXCEPT ![KeyName(p)] = TRUE]
                ELSE raced
    /\ UNCHANGED <<config, world, event, targets, raised, started, changes,
                   history, missed>>

\* the error codes load_last_state answers with None
NoStateCodes == {"NoSuchKey", "404", "AccessDenied"}

\* the error codes a failing s3.get_object raises in the model
GetObjectErrors == {"AccessDenied", "InternalError"}

\* load_last_state that answers None for every error of the store
load_last_state_lenient(code, body) ==
    IF code = "ok" THEN [raised |-> FALSE, value |-> Some(json_loads(body))]
    ELSE [raised |-> FALSE, value |-> None]

\* load_last_state that answers None for AccessDenied alone
load_last_state_strict(code, body) ==
    IF code = "ok" THEN [raised |-> FALSE, value |-> Some(json_loads(body))]
    ELSE IF code = "AccessDenied" THEN [raised |-> FALSE, value |-> None]
    ELSE [raised |-> TRUE, value |-> None]

\* what load_last_state does with the outcome of s3.get_object: "ok" with the
\* body, or an error code
load_last_state(code, body) ==
    IF code = "ok" THEN [raised |-> FALSE, value |-> Some(json_loads(body))]
    ELSE IF code \in NoStateCodes THEN [raised |-> FALSE, value |-> None]
    ELSE [raised |-> TRUE, value |-> None]

\* load_last_state and compare_sha, then `return {"function": target,
\* "changed": False}` or on to the download
AfterGetObject(p, code, body) ==
    LET r == load_last_state(code, body)
    IN  IF r.raised
        THEN Catch(p, "get_object", info[p])
        ELSE IF ~compare_sha(r.value, info[p][1].code_sha)
        THEN Append_result(p, [function |-> Target(p), changed |-> FALSE],
                           info[p], "unchanged")
        ELSE /\ last_state' = [last_state EXCEPT ![p] = r.value]
             /\ pc' = [pc EXCEPT ![p] = "download"]
             /\ Continue
             /\ UNCHANGED <<info, blob, upload_info>>

LoadState(p) ==
    /\ pc[p] = "load"
    /\ \/ /\ state_store[KeyName(p)] # None /\ NoFault
          /\ Log(p, <<Call("get_object", idx[p], "ok")>>)
          /\ AfterGetObject(p, "ok", state_store[KeyName(p)][1])
       \/ /\ state_store[KeyName(p)] = None /\ NoFault
          /\ Log(p, <<Call("get_object", idx[p], "NoSuchKey")>>)
          /\ AfterGetObject(p, "NoSuchKey", <<>>)
       \/ \E code \in GetObjectErrors :
            /\ MayFail /\ Fault
            /\ Log(p, <<Call("get_object", idx[p], code)>>)
            /\ AfterGetObject(p, code, <<>>)
    /\ UNCHANGED <<config, world, event, targets, raised, started, changes,
                   history, missed, raced>>

\* download_bytes(info["code_url"])
Download(p) ==
    /\ pc[p] = "download"
    /\ \/ /\ NoFault
          /\ Log(p, <<Call("download", idx[p], "ok")>>)
          /\ blob' = [blob EXCEPT ![p] = Some(BytesAt[info[p][1].code_url[1]])]
          /\ pc' = [pc EXCEPT ![p] = "put"]
          /\ Continue
          /\ UNCHANGED <<info, last_state, upload_info>>
       \/ /\ MayFail /\ Fault
          /\ Log(p, <<Call("download", idx[p], "URLError")>>)
          /\ Catch(p, "download", info[p])
    /\ UNCHANGED <<config, world, event, targets, raised, started, changes,
                   history, missed, raced>>

\* upload_zip that returns after s3.put_object, without the head: the version
\* identifier is taken from the version just written
PutObject_no_head(p) ==
    /\ pc[p] = "put"
    /\ \/ /\ NoFault
          /\ Log(p, <<Call("put_object", idx[p], "ok")>>)
          /\ artifacts' = [artifacts EXCEPT ![KeyName(p)] =
                 s3_put_object(@, versioning, blob[p][1], upload_metadata(info[p][1]))]
          /\ upload_info' = [upload_info EXCEPT ![p] =
                 Some([bucket |-> DEST_BUCKET, key |-> zip_key(KeyName(p)),
                       version_id |-> s3_head_object(artifacts'[KeyName(p)]).VersionId])]
          /\ pc' = [pc EXCEPT ![p] = "save"]
          /\ Continue
          /\ UNCHANGED <<info, last_state, blob>>
       \/ /\ MayFail /\ Fault
          /\ Log(p, <<Call("put_object", idx[p], "ClientError")>>)
          /\ Catch(p, "put_object", info[p])
          /\ UNCHANGED artifacts
    /\ UNCHANGED <<config, versioning, registry, state_store, event, targets, raised,
                   started, changes, history, missed, raced>>

\* upload_zip: s3.put_object to the stable key
PutObject(p) ==
    /\ pc[p] = "put"
    /\ \/ /\ NoFault
          /\ Log(p, <<Call("put_object", idx[p], "ok")>>)
          /\ artifacts' = [artifacts EXCEPT ![KeyName(p)] =
                 s3_put_object(@, versioning, blob[p][1], upload_metadata(info[p][1]))]
          /\ pc' = [pc EXCEPT ![p] = "head"]
          /\ Continue
          /\ UNCHANGED <<info, last_state, blob, upload_info>>
       \/ /\ MayFail /\ Fault
          /\ Log(p, <<Call("put_object", idx[p], "ClientError")>>)
          /\ Catch(p, "put_object", info[p])
          /\ UNCHANGED artifacts
    /\ UNCHANGED <<config, versioning, registry, state_store, event, targets, raised,
                   started, changes, history, missed, raced>>

\* upload_zip: s3.head_object, then the dict it returns
HeadObject(p) ==
    /\ pc[p] = "head"
    /\ \/ /\ NoFault
          /\ artifacts[KeyName(p)] # <<>>
          /\ Log(p, <<Call("head_object", idx[p], "ok")>>)
          /\ upload_info' = [upload_info EXCEPT ![p] =
                 Some([bucket |-> DEST_BUCKET, key |-> zip_key(KeyName(p)),
                       version_id |-> s3_head_object(artifacts[KeyName(p)]).VersionId])]
          /\ pc' = [pc EXCEPT ![p] = "save"]
          /\ Continue
          /\ UNCHANGED <<info, last_state, blob>>
       \/ /\ MayFail /\ Fault
          /\ Log(p, <<Call("head_object", idx[p], "ClientError")>>)
          /\ Catch(p, "head_object", info[p])
    /\ UNCHANGED <<config, world, event, targets, raised, started, changes,
                   history, missed, raced>>

\* save_state, then process_function's return value
SaveState(p) ==
    /\ pc[p] = "save"
    /\ \/ /\ NoFault
          /\ Log(p, <<Call("put_state", idx[p], "ok")>>)
          /\ state_store' = [state_store EXCEPT ![KeyName(p)] =
                 save_state(@, new_state(info[p][1], upload_info[p][1]))]
          /\ Append_result(p, [function |-> Target(p), changed |-> TRUE,
                               s3 |-> upload_info[p][1],
                               code_sha |-> info[p][1].code_sha[1]],
                           info[p], "changed")
       \/ /\ MayFail /\ Fault
          /\ Log(p, <<Call("put_state", idx[p], "ClientError")>>)
          /\ Catch(p, "put_state", info[p])
          /\ UNCHANGED state_store
    /\ UNCHANGED <<config, versioning, registry, artifacts, event, targets, raised,
                   started, changes, history, missed, raced>>

\* lambda_handler has returned or raised; the environment is free again
Return(p) ==
    /\ pc[p] \in {"done", "failed"}
    /\ pc' = [pc EXCEPT ![p] = "idle"]
    /\ event' = [event EXCEPT ![p] = JNull]
    /\ targets' = [targets EXCEPT ![p] = <<>>]
    /\ idx' = [idx EXCEPT ![p] = 0]
    /\ results' = [results EXCEPT ![p] = <<>>]
    /\ ops' = [ops EXCEPT ![p] = <<>>]
    /\ raised' = [raised EXCEPT ![p] = None]
    /\ UNCHANGED <<config, world, info, last_state, blob, upload_info, counters,
                   ghost>>

(***************************************************************************)
(* The world outside: a developer deploys new code to a function.          *)
(***************************************************************************)
CodeChange(f) ==
    /\ changes < MaxChanges
    /\ \E h \in Hashes \ {registry[f].sha} :
          /\ registry' = [registry EXCEPT ![f] = [sha |-> h, rev |-> @.rev + 1]]
          /\ history' = [history EXCEPT ![f] = Append(@, h)]
    /\ missed' = [missed EXCEPT ![f] = @ \/ pending[f]]
    /\ pending' = [pending EXCEPT ![f] = TRUE]
    /\ changes' = changes + 1
    /\ UNCHANGED <<config, versioning, state_store, artifacts, pc, locals, started,
                   faults, calls, raced>>

Next ==
    \/ \E p \in Procs : Invoke(p)
    \/ \E p \in Procs : ensure_bucket_versioning(p)
    \/ \E p \in Procs : ResolveTargets(p)
    \/ \E p \in Procs : FetchInfo(p)
    \/ \E p \in Procs : LoadState(p)
    \/ \E p \in Procs : Download(p)
    \/ \E p \in Procs : PutObject(p)
    \/ \E p \in Procs : HeadObject(p)
    \/ \E p \in Procs : SaveState(p)
    \/ \E p \in Procs : Return(p)
    \/ \E f \in Fns : CodeChange(f)

Spec == Init /\ [][Next]_vars

(***************************************************************************)
(* Target resolution on its own: invocations with every event of AllEvents *)
(* up to the resolution of their targets.                                  *)
(***************************************************************************)
NextResolve ==
    \/ \E p \in Procs : InvokeAny(p)
    \/ \E p \in Procs : ensure_bucket_versioning(p)
    \/ \E p \in Procs : ResolveTargets(p)
    \/ \E p \in Procs : Return(p)

SpecResolve == Init /\ [][NextResolve]_vars

(***************************************************************************)
(* compare_sha on its own: every stored state and every current hash.      *)
(***************************************************************************)
\* the values a key of a stored state may hold, None being JSON null
StoredShas == {None, Some(""), Some("h1"), Some("h2")}
StoredRevs == {Some(1)}
StoredVersionIds == {None, Some(1)}

\* the dicts a state record may decode to: any of the keys may be missing
StoredStates ==
    UNION { UNION { { [k \in ks |-> CASE k = "code_sha" -> sha
                                      [] k = "last_modified" -> rev
                                      [] k = "s3_version_id" -> vid] :
                      sha \in StoredShas, rev \in StoredRevs } :
                    vid \in StoredVersionIds } :
            ks \in SUBSET {"code_sha", "last_modified", "s3_version_id"} }

CurrentShas == {Some(""), Some("h1"), Some("h2")}

InitCompare ==
    /\ TARGETS_FROM_ENV = <<>>
    /\ cmp \in [state : {None} \cup {Some(d) : d \in StoredStates},
                sha : CurrentShas, result : {None}]
    /\ rt = [saved |-> [k \in KeyNames |-> None], read |-> None]
    /\ versioning = "Enabled"
    /\ registry = [f \in Fns |-> [sha |-> "h1", rev |-> 1]]
    /\ state_store = [k \in KeyNames |-> None]
    /\ artifacts = [k \in KeyNames |-> <<>>]
    /\ pc = [p \in Procs |-> "idle"]
    /\ event = [p \in Procs |-> JNull]
    /\ targets = [p \in Procs |-> <<>>]
    /\ idx = [p \in Procs |-> 0]
    /\ results = [p \in Procs |-> <<>>]
    /\ info = [p \in Procs |-> None]
    /\ last_state = [p \in Procs |-> None]
    /\ blob = [p \in Procs |-> None]
    /\ upload_info = [p \in Procs |-> None]
    /\ ops = [p \in Procs |-> <<>>]
    /\ raised = [p \in Procs |-> None]
    /\ started = 0
    /\ changes = 0
    /\ faults = 0
    /\ calls = [k \in KeyNames |-> <<>>]
    /\ history = [f \in Fns |-> <<"h1">>]
    /\ pending = [f \in Fns |-> TRUE]
    /\ missed = [f \in Fns |-> FALSE]
    /\ raced = [k \in KeyNames |-> FALSE]

Compare ==
    /\ cmp.result = None
    /\ cmp' = [cmp EXCEPT !.result = Some(compare_sha(cmp.state, cmp.sha))]
    /\ UNCHANGED <<TARGETS_FROM_ENV, rt, world, pc, locals, counters, ghost>>

NextCompare == Compare

SpecCompare == InitCompare /\ [][NextCompare]_vars

(***************************************************************************)
(* Invocations that overlap: a change notification for a function may      *)
(* arrive while another invocation is still running, and each invocation   *)
(* runs in an execution environment of its own.                            *)
(***************************************************************************)
\* the change notifications for one function, by its name and by its ARN
RaceEvents == {Notification(JId(ShortName("f"))), Notification(JId(Arn("f")))}

\* lambda_handler is called while other invocations may be running
InvokeConcurrently(p) ==
    /\ FirstFree(p)
    /\ started < MaxInvocations
    /\ \E e \in RaceEvents : event' = [event EXCEPT ![p] = e]
    /\ pc' = [pc EXCEPT ![p] = "versioning"]
    /\ started' = started + 1
    /\ UNCHANGED <<config, world, targets, idx, results, info, last_state, blob,
                   upload_info, ops, raised, changes, faults, ghost>>

NextRace ==
    \/ \E p \in Procs : InvokeConcurrently(p)
    \/ \E p \in Procs : ensure_bucket_versioning(p)
    \/ \E p \in Procs : ResolveTargets(p)
    \/ \E p \in Procs : FetchInfo(p)
    \/ \E p \in Procs : LoadState(p)
    \/ \E p \in Procs : Download(p)
    \/ \E p \in Procs : PutObject(p)
    \/ \E p \in Procs : HeadObject(p)
    \/ \E p \in Procs : SaveState(p)
    \/ \E p \in Procs : Return(p)
    \/ \E f \in Fns : CodeChange(f)

\* nothing is configured: every invocation is for the event's function
InitRace == Init /\ TARGETS_FROM_ENV = <<>> /\ versioning = "Enabled"

SpecRace == InitRace /\ [][NextRace]_vars

(***************************************************************************)
(* save_state and load_last_state on their own: any record saved for any   *)
(* key name, any key name read.                                            *)
(***************************************************************************)
\* the records saved: dicts with a content hash, any other key missing
StateRecords ==
    {d \in StoredStates :
        "code_sha" \in DOMAIN d /\ d["code_sha"] \in {Some("h1"), Some("h2")}}

\* save_state(k, S): the put succeeds, or it raises and nothing is stored
Save(k) ==
    /\ \E S \in StateRecords :
          \/ /\ NoFault
             /\ state_store' = [state_store EXCEPT ![k] = save_state(@, S)]
             /\ rt' = [saved |-> [rt.saved EXCEPT ![k] = Some(S)], read |-> None]
          \/ /\ MayFail /\ Fault
             /\ UNCHANGED <<state_store, rt>>
    /\ UNCHANGED <<TARGETS_FROM_ENV, cmp, versioning, registry, artifacts, pc,
                   locals, started, changes, ghost>>

\* load_last_state(k): s3.get_object answers with the stored body, with
\* NoSuchKey if there is none, or with an error
Load(k) ==
    /\ \E code \in {"ok", "NoSuchKey"} \cup GetObjectErrors :
          /\ code = "ok" => state_store[k] # None /\ NoFault
          /\ code = "NoSuchKey" => state_store[k] = None /\ NoFault
          /\ code \in GetObjectErrors => MayFail /\ Fault
          /\ LET body == IF code = "ok" THEN state_store[k][1] ELSE <<>>
             IN  rt' = [rt EXCEPT !.read =
                            Some([key |-> k, code |-> code,
                                  result |-> load_last_state(code, body)])]
    /\ UNCHANGED <<TARGETS_FROM_ENV, cmp, world, pc, locals, started, changes,
                   ghost>>

NextState ==
    \/ \E k \in KeyNames : Save(k)
    \/ \E k \in KeyNames : Load(k)

\* nothing is configured and no invocation runs: the store alone
InitState == Init /\ TARGETS_FROM_ENV = <<>> /\ versioning = "Enabled"

SpecState == InitState /\ [][NextState]_vars

(***************************************************************************)
(* What the claims speak of.                                               *)
(***************************************************************************)
\* the names of the collaborator calls of a log
OpNames(log) == [j \in 1..Len(log) |-> log[j].op]

\* the calls of a log that transfer the package or write the state
Transfers(log) ==
    SelectSeq(log, LAMBDA c : c.op \in {"download", "put_object", "put_state"})

\* the outcome of the state read of a call, "none" if it made none
StateRead(log) ==
    LET reads == SelectSeq(log, LAMBDA c : c.op = "get_object")
    IN  IF reads = <<>> THEN "none" ELSE reads[1].res

\* the content hash the registry reported to a call, None if it reported none
ReportedSha(c) == IF c.info = None THEN None ELSE c.info[1].code_sha

\* the state record stored for a key name, decoded; None if there is none
StoredState(k) ==
    IF state_store[k] = None THEN None ELSE Some(json_loads(state_store[k][1]))

\* two calls in succession for the same function, the registry reporting the
\* same content hash to both
Successive(a, b) ==
    /\ ResolveFunction(a.target) = ResolveFunction(b.target)
    /\ ReportedSha(a) = ReportedSha(b)
    /\ Truthy(ReportedSha(b))

\* the call reports no change and has transferred and written nothing
Skipped(b) == b.outcome = "unchanged" /\ Transfers(b.ops) = <<>>

(***************************************************************************)
(* C1.  Idempotence: when process_function runs twice in succession for    *)
(* the same target, the first call returned a result and not an error, the *)
(* registry reports the same content hash to both calls and the second     *)
(* call's read of the state record succeeds, the second call returns       *)
(* changed=false and makes no download, no upload and no state write.      *)
(***************************************************************************)
C1_Idempotent ==
    \A k \in KeyNames :
        Len(calls[k]) = 2 =>
            LET a == calls[k][1]
                b == calls[k][2]
            IN  (Successive(a, b) /\ a.outcome # "error" /\ StateRead(b.ops) = "ok")
                    => Skipped(b)

\* C1 as stated: whenever both calls return a result, the second is skipped
C1_AsStated ==
    \A k \in KeyNames :
        Len(calls[k]) = 2 =>
            LET a == calls[k][1]
                b == calls[k][2]
            IN  (Successive(a, b) /\ a.outcome # "error" /\ b.outcome # "error")
                    => Skipped(b)

\* a second call in succession that read the state and was skipped
C1_Witness ==
    \E k \in KeyNames :
        /\ Len(calls[k]) = 2
        /\ Successive(calls[k][1], calls[k][2])
        /\ calls[k][1].outcome = "changed"
        /\ StateRead(calls[k][2].ops) = "ok"
        /\ Skipped(calls[k][2])

\* a logged call that made process_function raise: a failed collaborator call,
\* but for the state read's codes that load_last_state answers with None, or
\* its own RuntimeError
Raising(c) ==
    /\ c.res # "ok"
    /\ ~(c.op = "get_object" /\ c.res \in {"NoSuchKey", "404", "AccessDenied"})

\* the calls an invocation has logged for its i-th target
OpsOf(p, i) == SelectSeq(ops[p], LAMBDA c : c.i = i)

\* the calls an invocation has logged for its targets
PerTargetOps(p) == SelectSeq(ops[p], LAMBDA c : c.i > 0)

FailedAt(p, i) == \E j \in 1..Len(ops[p]) : ops[p][j].i = i /\ Raising(ops[p][j])

IsError(entry) == DOMAIN entry = {"function", "error"}

IsOutcome(entry) == "changed" \in DOMAIN entry /\ "error" \notin DOMAIN entry

InLoop(p) == pc[p] \in {"fetch", "load", "download", "put", "head", "save"}

(***************************************************************************)
(* C2.  Partial-failure isolation and result alignment: entry i of the     *)
(* results names target i and is an error entry exactly if a step of       *)
(* target i failed, a normal outcome otherwise; while the loop runs the    *)
(* results hold one entry per target already processed, and when the       *)
(* handler returns they hold one entry per target, every target having     *)
(* been looked up whatever happened to the targets before it.              *)
(***************************************************************************)
C2_ResultsAligned ==
    \A p \in Procs :
        /\ InLoop(p) => Len(results[p]) = idx[p] - 1 /\ idx[p] \in 1..Len(targets[p])
        /\ pc[p] = "done" => Len(results[p]) = Len(targets[p])
        /\ \A i \in 1..Len(results[p]) :
              /\ results[p][i].function = targets[p][i]
              /\ IsError(results[p][i]) \/ IsOutcome(results[p][i])
              /\ IsError(results[p][i]) <=> FailedAt(p, i)
              /\ OpsOf(p, i) # <<>> /\ OpsOf(p, i)[1].op = "get_function"

\* three targets, the second failed at the metadata fetch, the first and the
\* third with normal outcomes
C2_Witness ==
    \E p \in Procs :
        /\ pc[p] = "done"
        /\ Len(targets[p]) = 3
        /\ targets[p][1] = targets[p][3]
        /\ IsOutcome(results[p][1])
        /\ IsError(results[p][2])
        /\ OpsOf(p, 2) = <<Call("get_function", 2, "ClientError")>>
        /\ IsOutcome(results[p][3])

VersioningFailed(p) ==
    \E j \in 1..Len(ops[p]) :
        /\ ops[p][j].op \in {"get_bucket_versioning", "put_bucket_versioning"}
        /\ ops[p][j].res # "ok"

\* the change notifications: the events of the exact shape with a function name
ChangeNotifications == {Notification(JId(id)) : id \in TargetIds}

\* neither the event nor the configuration names a target
NoTargets(p) == event[p] \notin ChangeNotifications /\ TARGETS_FROM_ENV = <<>>

PastResolution(p) == pc[p] \notin {"idle", "versioning", "resolve"}

(***************************************************************************)
(* C3.  Exit contract: an invocation ends in failure exactly if the        *)
(* versioning step failed or no target could be resolved; a failed step of *)
(* a target never makes the invocation fail: once a target is being        *)
(* processed the invocation can only return its results.                   *)
(***************************************************************************)
C3_ExitContract ==
    \A p \in Procs :
        /\ pc[p] = "failed" =>
              \/ VersioningFailed(p) /\ raised[p] = Some(VersioningError)
              \/ /\ ~VersioningFailed(p) /\ NoTargets(p)
                 /\ raised[p] = Some(NoTargetsMessage)
        /\ VersioningFailed(p) => pc[p] = "failed"
        /\ PastResolution(p) /\ NoTargets(p) => pc[p] = "failed"
        /\ pc[p] = "failed" => results[p] = <<>> /\ PerTargetOps(p) = <<>>
        /\ (\E i \in 1..Len(targets[p]) : FailedAt(p, i)) =>
              pc[p] # "failed" /\ raised[p] = None

\* an invocation that returned a result list with an error entry in it
C3_Witness ==
    \E p \in Procs :
        /\ pc[p] = "done"
        /\ \E i \in 1..Len(results[p]) : IsError(results[p][i]) /\ FailedAt(p, i)
        /\ raised[p] = None

\* the content hash a state records, None if it records none
RecordedHash(state) ==
    IF state = None \/ "code_sha" \notin DOMAIN state[1] THEN None
    ELSE state[1]["code_sha"]

(***************************************************************************)
(* C4.  Change detector: compare_sha returns false exactly if the last     *)
(* state is present, records a content hash and that hash equals the       *)
(* current one; for an absent state, a state without a hash and a          *)
(* different hash it returns true.                                         *)
(***************************************************************************)
C4_ChangeDetector ==
    cmp.result # None =>
        (cmp.result = Some(FALSE)
            <=> (RecordedHash(cmp.state) # None /\ RecordedHash(cmp.state) = cmp.sha))

\* compare_sha has answered false for a state that records the current hash
C4_Witness ==
    /\ cmp.result = Some(FALSE)
    /\ cmp.state # None
    /\ cmp.state[1]["code_sha"] = cmp.sha

\* a sequence without the repetitions of an element next to itself
RECURSIVE Dedup(_)
Dedup(sq) ==
    IF Len(sq) <= 1 THEN sq
    ELSE IF sq[1] = sq[2] THEN Dedup(Tail(sq))
    ELSE <<sq[1]>> \o Dedup(Tail(sq))

\* the content hashes of the versions stored at a key name's artifact key
StoredHashes(k) == [j \in 1..Len(artifacts[k]) |-> Sha256Of[artifacts[k][j].body]]

\* every change of f was followed, before the next one, by a call for f that
\* ended without a failed step
EveryChangeBackedUp(f) == ~pending[f] /\ ~missed[f]

(***************************************************************************)
(* C5.  Complete version history: when every change of a function's code   *)
(* was followed, before the next change, by a call for that function that  *)
(* ended without a failed step, the function's artifact key holds the      *)
(* content hashes the function has had, in the order of the changes (a     *)
(* hash uploaded again without a change in between counted once).          *)
(***************************************************************************)
C5_CompleteHistory ==
    \A f \in Fns : EveryChangeBackedUp(f) => Dedup(StoredHashes(f)) = history[f]

\* no call has been made under an identifier that ends in a qualifier
OnlyUnqualifiedCalls == \A k \in KeyNames \ Fns : calls[k] = <<>>

\* C5 as long as every target was a short name or an unqualified ARN
C5_Unqualified == OnlyUnqualifiedCalls => C5_CompleteHistory

\* a history of three hashes, the last a change back to the first, backed up
C5_UnqualifiedWitness ==
    \E f \in Fns :
        /\ OnlyUnqualifiedCalls
        /\ EveryChangeBackedUp(f)
        /\ history[f] = <<"h1", "h2", "h1">>

\* the function name of a change notification
NameOf(e) == e[2]["detail"][2]["requestParameters"][2]["functionName"][2]

(***************************************************************************)
(* C6.  Target resolution precedence: when the event is a change           *)
(* notification and the configured list is not empty, the targets are      *)
(* the event's function alone, and every call and every result of the      *)
(* invocation is for that one target.                                      *)
(***************************************************************************)
C6_EventPrecedence ==
    \A p \in Procs :
        (PastResolution(p) /\ event[p] \in ChangeNotifications
           /\ TARGETS_FROM_ENV # <<>> /\ ~VersioningFailed(p)) =>
            /\ pc[p] # "failed"
            /\ targets[p] = <<NameOf(event[p])>>
            /\ \A j \in 1..Len(ops[p]) : ops[p][j].i \in {0, 1}
            /\ \A i \in 1..Len(results[p]) :
                  i = 1 /\ results[p][i].function = NameOf(event[p])

\* a finished invocation for the event's function, which the configured list
\* of three targets does not hold
C6_Witness ==
    \E p \in Procs :
        /\ pc[p] = "done"
        /\ event[p] \in ChangeNotifications
        /\ Len(TARGETS_FROM_ENV) = 3
        /\ \A i \in 1..3 : TARGETS_FROM_ENV[i] # NameOf(event[p])
        /\ Len(results[p]) = 1

(***************************************************************************)
(* C7.  Malformed events never raise: for every event that is no change    *)
(* notification, function_name_from_event returns a value with no target   *)
(* in it, and the invocation goes on with the configured list (or, the     *)
(* list being empty, fails for want of targets), never with an exception   *)
(* of the event's parsing.                                                 *)
(***************************************************************************)
C7_MalformedEvents ==
    \A p \in Procs :
        (pc[p] # "idle" /\ event[p] \notin ChangeNotifications) =>
            /\ function_name_from_event(event[p])[1] = "return"
            /\ ~EventFnTruthy(function_name_from_event(event[p])[2])
            /\ raised[p] \in {None, Some(VersioningError), Some(NoTargetsMessage)}
            /\ (PastResolution(p) /\ ~VersioningFailed(p) /\ TARGETS_FROM_ENV # <<>>) =>
                  pc[p] = "fetch" /\ targets[p] = TARGETS_FROM_ENV /\ raised[p] = None

\* an event whose request parameters are no dict: the invocation has gone on
\* to the configured list
C7_Witness ==
    \E p \in Procs :
        /\ pc[p] = "fetch"
        /\ IsDict(event[p])
        /\ "detail" \in DOMAIN event[p][2]
        /\ IsDict(event[p][2]["detail"])
        /\ Get(event[p][2]["detail"][2], "requestParameters") = JNull
        /\ try_function_name(event[p]) = Raised
        /\ targets[p] = TARGETS_FROM_ENV

(***************************************************************************)
(* C8.  No targets is fatal before processing: when neither the event nor  *)
(* the configuration names a target, the invocation fails once versioning  *)
(* is ensured, and it has made no call for any target: no registry lookup, *)
(* no state read, no download, no upload and no state write.               *)
(***************************************************************************)
C8_NoTargetsFatal ==
    \A p \in Procs :
        (PastResolution(p) /\ NoTargets(p)) =>
            /\ pc[p] = "failed"
            /\ ~VersioningFailed(p) => raised[p] = Some(NoTargetsMessage)
            /\ targets[p] = <<>> /\ results[p] = <<>>
            /\ \A j \in 1..Len(ops[p]) :
                  ops[p][j].op \in {"get_bucket_versioning", "put_bucket_versioning"}

\* an invocation that failed for want of targets
C8_Witness ==
    \E p \in Procs :
        /\ pc[p] = "failed"
        /\ NoTargets(p)
        /\ raised[p] = Some(NoTargetsMessage)
        /\ OpNames(ops[p]) = <<"get_bucket_versioning", "put_bucket_versioning">>

\* a descriptor with an empty or missing content hash or download locator
InvalidDescriptor(d) ==
    \/ d.code_sha \in {None, Some("")}
    \/ d.code_url \in {None, Some("")}

(***************************************************************************)
(* C9.  Invalid descriptor: a call whose descriptor has an empty content   *)
(* hash or an empty download locator ends as an error entry, never as a    *)
(* changed=false entry, and makes no call after the registry lookup: no    *)
(* state read, no download, no upload and no state write.                  *)
(***************************************************************************)
C9_InvalidDescriptor ==
    /\ \A k \in KeyNames : \A j \in 1..Len(calls[k]) :
          (calls[k][j].info # None /\ InvalidDescriptor(calls[k][j].info[1])) =>
              /\ calls[k][j].outcome = "error"
              /\ OpNames(calls[k][j].ops) = <<"get_function", "raise">>
    /\ \A p \in Procs :
          /\ info[p] # None => ~InvalidDescriptor(info[p][1])
          /\ \A i \in 1..Len(results[p]) :
                (\E j \in 1..Len(ops[p]) : ops[p][j] = Call("raise", i, "RuntimeError")) =>
                    /\ IsError(results[p][i])
                    /\ OpNames(OpsOf(p, i)) = <<"get_function", "raise">>

\* a call with a descriptor without download locator has ended as an error
C9_Witness ==
    \E p \in Procs : \E i \in 1..Len(results[p]) :
        /\ IsError(results[p][i])
        /\ OpNames(OpsOf(p, i)) = <<"get_function", "raise">>
        /\ calls[rsplit_last(targets[p][i])] # <<>>
        /\ LET c == calls[rsplit_last(targets[p][i])][Len(calls[rsplit_last(targets[p][i])])]
           IN  c.info # None /\ c.info[1].code_url = None /\ c.outcome = "error"

\* the steps of a full cycle, in order
FullCycle ==
    <<"get_function", "get_object", "download", "put_object", "head_object", "put_state">>

\* sq is the beginning of full, at least n long
IsPrefix(sq, full, n) ==
    /\ Len(sq) \in n..Len(full)
    /\ \A j \in 1..Len(sq) : sq[j] = full[j]

(***************************************************************************)
(* C10.  Absent-state first run: when the state read finds no record,      *)
(* load_last_state returns None, the call is treated as changed and goes   *)
(* through the full cycle in order (download, upload, confirmatory head,   *)
(* state write), stopping only at a step that fails; when it ends normally *)
(* it has made every step and the state record holds the content hash the  *)
(* registry reported to it.                                                *)
(***************************************************************************)
C10_FirstRun ==
    /\ \A p \in Procs :
          (InLoop(p) /\ StateRead(OpsOf(p, idx[p])) = "NoSuchKey") =>
              /\ pc[p] \in {"download", "put", "head", "save"}
              /\ last_state[p] = None
              /\ IsPrefix(OpNames(OpsOf(p, idx[p])), FullCycle, 2)
    /\ \A k \in KeyNames :
          (calls[k] # <<>> /\ StateRead(calls[k][Len(calls[k])].ops) = "NoSuchKey") =>
              LET c == calls[k][Len(calls[k])]
              IN  /\ c.outcome \in {"changed", "error"}
                  /\ IsPrefix(OpNames(c.ops), FullCycle, 3)
                  /\ c.outcome = "error" <=> Raising(c.ops[Len(c.ops)])
                  /\ c.outcome = "changed" =>
                        /\ OpNames(c.ops) = FullCycle
                        /\ RecordedHash(StoredState(k)) = ReportedSha(c)

\* a first run has gone through the full cycle and has written the state
C10_Witness ==
    \E k \in KeyNames :
        /\ calls[k] # <<>>
        /\ StateRead(calls[k][Len(calls[k])].ops) = "NoSuchKey"
        /\ calls[k][Len(calls[k])].outcome = "changed"
        /\ RecordedHash(StoredState(k)) = Some(registry[ResolveFunction(
               calls[k][Len(calls[k])].target)].sha)

(***************************************************************************)
(* C11.  State round trip: after save_state(f, S), a load_last_state(f)    *)
(* with no write to f's state key in between whose read the store answers  *)
(* returns a value equal to S, whatever record was stored for f before;    *)
(* the record is replaced as a whole, nothing of the prior record is kept. *)
(***************************************************************************)
C11_RoundTrip ==
    rt.read # None =>
        LET r == rt.read[1]
        IN  r.code = "ok" =>
                /\ ~r.result.raised
                /\ r.result.value = rt.saved[r.key]

\* C11 as stated: whenever load_last_state returns after a save, it returns S
C11_AsStated ==
    rt.read # None =>
        LET r == rt.read[1]
        IN  (rt.saved[r.key] # None /\ ~r.result.raised)
                => r.result.value = rt.saved[r.key]

\* a record without a version identifier is read back as it was saved
C11_Witness ==
    /\ rt.read # None
    /\ rt.read[1].code = "ok"
    /\ rt.read[1].result.value = rt.saved[rt.read[1].key]
    /\ "s3_version_id" \notin DOMAIN rt.read[1].result.value[1]
    /\ "last_modified" \in DOMAIN rt.read[1].result.value[1]

\* the identifier is a short name or the function's ARN: it has no qualifier
Unqualified(id) == Qualifier(id) = <<>>

\* the key name of the function an identifier names
FunctionKey(id) == ResolveFunction(id)

\* a step writes the state record or the artifact of a key name only for an
\* invocation that is processing that key name, and for a short name or an ARN
\* that key name is the function's short name
WritesOwnKey ==
    \A k \in KeyNames :
        (state_store'[k] # state_store[k] \/ artifacts'[k] # artifacts[k]) =>
            \E p \in Procs :
                /\ InWindow(p)
                /\ k = rsplit_last(Target(p))
                /\ Unqualified(Target(p)) => k = FunctionKey(Target(p))

\* the calls made with a short name and with an ARN of the same function are
\* calls for the same key name, and the state saved by the one is found by
\* the other: with the same hash reported and the read answered, it is skipped
FoundUnderOtherForm ==
    /\ \A k1, k2 \in KeyNames :
         \A i \in 1..Len(calls[k1]) : \A j \in 1..Len(calls[k2]) :
            LET a == calls[k1][i]
                b == calls[k2][j]
            IN  (/\ Unqualified(a.target) /\ Unqualified(b.target)
                 /\ ResolveFunction(a.target) = ResolveFunction(b.target))
                    => k1 = k2 /\ k1 = FunctionKey(a.target)
    /\ \A k \in KeyNames :
         Len(calls[k]) = 2 =>
            LET a == calls[k][1]
                b == calls[k][2]
            IN  (/\ a.target # b.target
                 /\ Unqualified(a.target) /\ Unqualified(b.target)
                 /\ Successive(a, b)
                 /\ a.outcome = "changed"
                 /\ StateRead(b.ops) = "ok")
                    => Skipped(b)

(***************************************************************************)
(* C12.  Short-name normalization: the pipeline run with a function's      *)
(* short name and the pipeline run with its ARN read and write the same    *)
(* state key and the same artifact key, those of the short name, so that   *)
(* the state saved under the one form is found under the other and an      *)
(* unchanged hash gives changed=false.                                     *)
(***************************************************************************)
C12_ShortNameKey == []FoundUnderOtherForm /\ [][WritesOwnKey]_vars

\* a backup made with the short name, then a run with the ARN that is skipped
C12_Witness ==
    \E k \in KeyNames :
        /\ Len(calls[k]) = 2
        /\ calls[k][1].target = ShortName(k)
        /\ calls[k][2].target = Arn(k)
        /\ calls[k][1].outcome = "changed"
        /\ Skipped(calls[k][2])

\* the collaborator calls of a log after its state read
AfterStateRead(log) ==
    LET at == CHOOSE j \in 1..Len(log) : log[j].op = "get_object"
    IN  SubSeq(log, at + 1, Len(log))

(***************************************************************************)
(* C13.  State-read error policy: when the store answers the state read    *)
(* with record-not-found or with insufficient-permission, the call goes on *)
(* as a first run: it is never reported unchanged, its next step is the    *)
(* download, and if no later step fails it uploads, saves the state and    *)
(* returns changed=true.  When the store answers with any other error the  *)
(* call ends as an error entry with no download, upload or state write.    *)
(***************************************************************************)
C13_StateReadPolicy ==
    \A k \in KeyNames : \A n \in 1..Len(calls[k]) :
        LET c == calls[k][n]
            read == StateRead(c.ops)
        IN  /\ read \in NoStateCodes =>
                /\ c.outcome # "unchanged"
                /\ AfterStateRead(c.ops) # <<>>
                /\ AfterStateRead(c.ops)[1].op = "download"
                /\ c.outcome = "changed" <=>
                       \A j \in 1..Len(c.ops) : ~Raising(c.ops[j])
                /\ c.outcome = "changed" =>
                       OpNames(AfterStateRead(c.ops)) =
                           <<"download", "put_object", "head_object", "put_state">>
            /\ read \notin NoStateCodes \cup {"ok", "none"} =>
                /\ c.outcome = "error"
                /\ AfterStateRead(c.ops) = <<>>

\* a record is stored, its read is denied and the package is uploaded again;
\* and a read that failed otherwise ended a call
C13_Witness ==
    \E k \in KeyNames :
        /\ Len(calls[k]) = 2
        /\ calls[k][1].outcome = "changed"
        /\ StateRead(calls[k][2].ops) = "AccessDenied"
        /\ calls[k][2].outcome = "changed"

\* a read answered with another error ended the call as an error entry
C13_WitnessError ==
    \E k \in KeyNames : \E n \in 1..Len(calls[k]) :
        /\ StateRead(calls[k][n].ops) = "InternalError"
        /\ calls[k][n].outcome = "error"

\* the positions of a log that hold a call of the given name
Positions(log, op) == {j \in 1..Len(log) : log[j].op = op}

\* the invocation is past ensure_bucket_versioning
Ensured(p) == pc[p] \notin {"idle", "versioning", "failed"}

\* the versioning status is queried before anything else, the enabling write
\* comes at most once and right after the query, targets are resolved and
\* processed only after the step has succeeded, and a failure of the query or
\* of the write fails the invocation before any target
VersioningFirst ==
    \A p \in Procs :
        /\ ops[p] # <<>> =>
              /\ ops[p][1].op = "get_bucket_versioning"
              /\ Positions(ops[p], "get_bucket_versioning") = {1}
              /\ Positions(ops[p], "put_bucket_versioning") \subseteq {2}
        /\ Ensured(p) =>
              /\ ops[p] # <<>>
              /\ \A j \in 1..Len(ops[p]) : ops[p][j].i = 0 => ops[p][j].res = "ok"
              /\ versioning = "Enabled"
        /\ (targets[p] # <<>> \/ PerTargetOps(p) # <<>>) => Ensured(p)
        /\ VersioningFailed(p) =>
              /\ pc[p] = "failed"
              /\ raised[p] = Some(VersioningError)
              /\ targets[p] = <<>>
              /\ results[p] = <<>>
              /\ PerTargetOps(p) = <<>>

\* in the step that queries the status, the enabling write is issued exactly
\* if the status queried is not Enabled
WriteOnlyIfNotEnabled ==
    \A p \in Procs :
        (ops[p] = <<>> /\ ops'[p] # <<>> /\ ops'[p][1].res = "ok") =>
            (Positions(ops'[p], "put_bucket_versioning") # {} <=> versioning # "Enabled")

(***************************************************************************)
(* C14.  Versioning is ensured first and idempotently: every invocation    *)
(* queries the versioning status before it resolves or processes targets;  *)
(* it issues the enabling write only if the status queried is not Enabled, *)
(* never when it is Enabled; if the query or the write fails, the          *)
(* invocation fails and no target is processed.                            *)
(***************************************************************************)
C14_VersioningFirst == []VersioningFirst /\ [][WriteOnlyIfNotEnabled]_vars

\* an invocation that found versioning enabled, issued no write and went on
\* to process a target
C14_Witness ==
    \E p \in Procs :
        /\ Positions(ops[p], "get_bucket_versioning") = {1}
        /\ Positions(ops[p], "put_bucket_versioning") = {}
        /\ PerTargetOps(p) # <<>>

\* an invocation whose enabling write failed
C14_WitnessFailed ==
    \E p \in Procs :
        /\ Positions(ops[p], "put_bucket_versioning") = {2}
        /\ ops[p][2].res # "ok"
        /\ pc[p] = "failed"

\* the validation's own raise after the registry lookup
RejectedDescriptor == <<"get_function", "raise">>

\* entry i of the results reports changed=false
IsUnchanged(entry) == IsOutcome(entry) /\ ~entry.changed

(***************************************************************************)
(* C15.  Per-target step order: the calls made for a target are, in this   *)
(* order and each at most once, the registry lookup, the state read, the   *)
(* download, the upload, its confirmatory head and the state write, or the *)
(* lookup followed by the validation's raise; a failed call is the last    *)
(* call for its target (nothing is retried); a target reported unchanged   *)
(* has only the lookup and the state read; the state is written only after *)
(* the upload and the head have succeeded; the targets are processed one   *)
(* after the other.                                                        *)
(***************************************************************************)
C15_StepOrder ==
    \A p \in Procs :
        /\ \A j, n \in 1..Len(ops[p]) : j < n => ops[p][j].i <= ops[p][n].i
        /\ \A i \in 1..Len(targets[p]) :
              LET log == OpsOf(p, i)
                  names == OpNames(log)
              IN  /\ IsPrefix(names, FullCycle, 0) \/ names = RejectedDescriptor
                  /\ \A j \in 1..Len(log) : Raising(log[j]) => j = Len(log)
                  /\ \A j \in Positions(log, "put_state") :
                        /\ log[j - 1].op = "head_object" /\ log[j - 1].res = "ok"
                        /\ log[j - 2].op = "put_object" /\ log[j - 2].res = "ok"
                  /\ i > idx[p] => log = <<>>
                  /\ i <= Len(results[p]) =>
                        /\ IsUnchanged(results[p][i]) =>
                              /\ names = <<"get_function", "get_object">>
                              /\ Transfers(log) = <<>>
                        /\ (IsOutcome(results[p][i]) /\ ~IsUnchanged(results[p][i])) =>
                              /\ names = FullCycle
                              /\ \A j \in 1..Len(log) : ~Raising(log[j])

\* an invocation with a target that went through the full cycle and a target
\* that was reported unchanged after it
C15_Witness ==
    \E p \in Procs :
        /\ Len(results[p]) >= 2
        /\ \E i, j \in 1..Len(results[p]) :
              /\ i < j
              /\ IsOutcome(results[p][i]) /\ ~IsUnchanged(results[p][i])
              /\ IsUnchanged(results[p][j])
              /\ OpNames(OpsOf(p, i)) = FullCycle

\* the function a stored version was uploaded for: the one its function_arn
\* metadata names
FunctionOf(v) == ResolveFunction(v.metadata.function_arn[1])

\* every stored version of a function is stored under that function's
\* artifact key
StableKey ==
    \A k \in KeyNames : \A j \in 1..Len(artifacts[k]) : FunctionOf(artifacts[k][j]) = k

\* a step leaves every stored version in place, adds at most one version to
\* one key, a new version with an identifier of its own, and removes no
\* state record
AppendOnly ==
    /\ \A k \in KeyNames :
          /\ Len(artifacts'[k]) \in {Len(artifacts[k]), Len(artifacts[k]) + 1}
          /\ \A j \in 1..Len(artifacts[k]) : artifacts'[k][j] = artifacts[k][j]
          /\ \A j \in 1..Len(artifacts[k]) :
                artifacts'[k][Len(artifacts'[k])].version_id = artifacts[k][j].version_id
                    => j = Len(artifacts'[k])
          /\ state_store[k] # None => state_store'[k] # None
    /\ \A k1, k2 \in KeyNames :
          (artifacts'[k1] # artifacts[k1] /\ artifacts'[k2] # artifacts[k2]) => k1 = k2

(***************************************************************************)
(* C16.  Append-only history on a stable key: every upload for a function  *)
(* goes to the artifact key of that function; every upload adds one new    *)
(* version and leaves the earlier versions in place; no step deletes an    *)
(* artifact version or a state record.                                     *)
(***************************************************************************)
C16_StableAppendOnly == []StableKey /\ [][AppendOnly]_vars

\* the part of C16 that does not depend on the key an upload goes to
C16_AppendOnly == [][AppendOnly]_vars

\* no invocation is within the steps that read and write the records of k
Quiet(k) == \A p \in Procs : InWindow(p) => KeyName(p) # k

\* the newest stored version of a key
Newest(k) == artifacts[k][Len(artifacts[k])]

\* the recorded content hash is not the hash of the newest stored version
StaleHash(k) ==
    /\ state_store[k] # None
    /\ artifacts[k] # <<>>
    /\ StoredState(k)[1]["code_sha"] # Newest(k).metadata.code_sha

\* the recorded version identifier names a version with another content hash
WrongVersion(k) ==
    /\ state_store[k] # None
    /\ \E j \in 1..Len(artifacts[k]) :
          /\ artifacts[k][j].version_id = StoredState(k)[1]["s3_version_id"]
          /\ artifacts[k][j].metadata.code_sha # StoredState(k)[1]["code_sha"]

\* the state record does not describe the latest artifact version
Stale(k) == StaleHash(k) \/ WrongVersion(k)

(***************************************************************************)
(* C17.  Concurrent invocations race: when two invocations process the     *)
(* same function at the same time, a state is reached in which the state   *)
(* record does not describe the latest artifact version (C17_Witness); and *)
(* with no failed call, that happens only by such an overlap: when no      *)
(* invocation is at work on a key whose state record differs in its hash   *)
(* from the newest version, or names a version of another hash, two        *)
(* invocations have processed that key at the same time.                   *)
(***************************************************************************)
C17_StaleOnlyByRace ==
    \A k \in KeyNames : (faults = 0 /\ Quiet(k) /\ Stale(k)) => raced[k]

\* both invocations have returned without a failed call, and the state record
\* holds a hash that is not the newest version's and names a version that was
\* uploaded with another hash
C17_Witness ==
    \E k \in KeyNames :
        /\ \A p \in Procs : pc[p] = "idle"
        /\ faults = 0
        /\ raced[k]
        /\ StaleHash(k)
        /\ WrongVersion(k)

\* the state record of a key names a stored version of that key that carries
\* the recorded content hash in its metadata
PointsAtStoredVersion(k) ==
    state_store[k] # None =>
        \E j \in 1..Len(artifacts[k]) :
            /\ artifacts[k][j].version_id = StoredState(k)[1]["s3_version_id"]
            /\ artifacts[k][j].metadata.code_sha = StoredState(k)[1]["code_sha"]

\* after a call that failed once it had detected a change, the next call for
\* the key with the same hash is not reported unchanged
DetectsChangeAgain(k) ==
    Len(calls[k]) = 2 =>
        LET a == calls[k][1]
            b == calls[k][2]
        IN  (/\ a.outcome = "error"
             /\ Positions(a.ops, "download") # {}
             /\ ReportedSha(a) = ReportedSha(b))
                => b.outcome # "unchanged"

\* a step changes a state record only as the last step of a call that
\* returns changed=true for that key, and a step that ends a call as an error
\* entry leaves every state record as it was
StateWrittenOnSuccess ==
    /\ \A k \in KeyNames :
          state_store'[k] # state_store[k] =>
              \E p \in Procs :
                  /\ pc[p] = "save" /\ KeyName(p) = k
                  /\ Len(results'[p]) = Len(results[p]) + 1
                  /\ IsOutcome(results'[p][Len(results'[p])])
                  /\ results'[p][Len(results'[p])].changed
    /\ \A p \in Procs :
          (/\ Len(results'[p]) = Len(results[p]) + 1
           /\ IsError(results'[p][Len(results'[p])]))
              => state_store' = state_store

(***************************************************************************)
(* C18.  State never runs ahead of the archive: with invocations that do   *)
(* not overlap, whatever step fails, a state record with content hash h    *)
(* and version identifier v always names a stored version v of its key     *)
(* that carries h in its metadata; a call that fails leaves the state      *)
(* record as it was, so that the next call with the same hash detects the  *)
(* change again.                                                           *)
(***************************************************************************)
C18_StateBehindArchive ==
    /\ [](\A k \in KeyNames : PointsAtStoredVersion(k) /\ DetectsChangeAgain(k))
    /\ [][StateWrittenOnSuccess]_vars

\* a call failed after its upload and left the state record as it was; the
\* next call with the same hash uploaded again and saved the state
C18_Witness ==
    \E k \in KeyNames :
        /\ Len(calls[k]) = 2
        /\ calls[k][1].outcome = "error"
        /\ Positions(calls[k][1].ops, "put_object") # {}
        /\ ReportedSha(calls[k][1]) = ReportedSha(calls[k][2])
        /\ calls[k][2].outcome = "changed"
        /\ Len(artifacts[k]) = 2
        /\ state_store[k] # None
        /\ StoredState(k)[1]["s3_version_id"] = Newest(k).version_id

(***************************************************************************)
(* C19.  Per-function independence of the stored records: a call for a     *)
(* target reads and writes the records of the function it names, under     *)
(* that function's key name, and calls for targets that name different     *)
(* functions are calls for different key names, whatever the form of the   *)
(* identifier: short name, ARN, or either with a qualifier.                *)
(***************************************************************************)
C19_Independent ==
    /\ \A k \in KeyNames : \A i, j \in 1..Len(calls[k]) :
          ResolveFunction(calls[k][i].target) = ResolveFunction(calls[k][j].target)
    /\ \A k \in KeyNames : \A i \in 1..Len(calls[k]) :
          k = FunctionKey(calls[k][i].target)

\* for short names and ARNs without a qualifier the records are independent
C19_Unqualified ==
    \A k \in KeyNames : \A i, j \in 1..Len(calls[k]) :
        (Unqualified(calls[k][i].target) /\ Unqualified(calls[k][j].target)) =>
            /\ ResolveFunction(calls[k][i].target) = ResolveFunction(calls[k][j].target)
            /\ k = FunctionKey(calls[k][i].target)

\* a backup of one function is followed by a call for another function that
\* finds the first one's state record and is reported unchanged
C19_Collision ==
    \E k \in KeyNames :
        /\ Len(calls[k]) = 2
        /\ ResolveFunction(calls[k][1].target) # ResolveFunction(calls[k][2].target)
        /\ calls[k][1].outcome = "changed"
        /\ calls[k][2].outcome = "unchanged"


=============================================================================
